---- MODULE Spec2Model ----
(***************************************************************************)
(* Model of server.py: the chimera local static-file server.              *)
(*                                                                         *)
(* main() is a straight-line program: parse the port argument, change the *)
(* working directory, bind a TCPServer inside a `with` block, print the    *)
(* banner, try to open the browser, and block in serve_forever().  The     *)
(* try statement around the `with` block has two handlers, OSError and     *)
(* KeyboardInterrupt.  An exception that leaves the `with` block first     *)
(* runs the server's __exit__ (server_close) and only then reaches a       *)
(* handler; an exception neither handler names ends the interpreter with   *)
(* a traceback and exit status 1.                                          *)
(*                                                                         *)
(* Strings that the code parses are sequences of one-character strings.    *)
(* Standard output is the sequence of lines printed, each line a record    *)
(* [msg, n] where n is the number interpolated into the line (0 if none).  *)
(***************************************************************************)
EXTENDS Integers, Sequences, FiniteSets, TLC

VARIABLES
    argv,          \* sys.argv[1:], a sequence of argument strings
    pc,            \* position of main()
    port,          \* local variable port
    cwd,           \* process working directory
    listening,     \* TRUE while the program's listening socket is open
    exc,           \* exception in flight: [type, errno]
    output,        \* lines printed by the program on standard output
    traceback,     \* type of the exception the interpreter reported, or "none"
    exitStatus,    \* process exit status, Running while the process lives
    browserUrls,   \* ports of the URLs handed to webbrowser.open
    lastRequest,   \* the last HTTP request handled
    lastResponse,  \* bytes of the last HTTP response written, as a record
    bindOutcome,   \* what the operating system answered to the bind
    serverPort,    \* the port of the address handed to TCPServer
    browserOutcome,\* what webbrowser.open did, "none" before the attempt
    steps,         \* the steps of main() entered so far, in order
    sigint         \* where a user interrupt was delivered, "none" if nowhere

vars == <<argv, pc, port, cwd, listening, exc, output, traceback, exitStatus,
          browserUrls, lastRequest, lastResponse, bindOutcome, serverPort,
          browserOutcome, steps, sigint>>

----------------------------------------------------------------------------
(* Bounds *)

MaxArgLen == 3

----------------------------------------------------------------------------
(* Command line *)

ArgChars == {"8", "0", "-", " ", "_", "x"}

Digits == {"8", "0"}

DigitValue(c) == IF c = "8" THEN 8 ELSE 0

ArgStrings == UNION {[1..n -> ArgChars] : n \in 0..MaxArgLen}

ArgVectors == {<<>>} \cup {<<a>> : a \in ArgStrings}

DefaultPort == 8000

Running == -1

(* str.strip() as int() applies it: drop leading and trailing blanks *)
RECURSIVE LStrip(_)
LStrip(s) == IF s # <<>> /\ Head(s) = " " THEN LStrip(Tail(s)) ELSE s

RECURSIVE RStrip(_)
RStrip(s) ==
    IF s # <<>> /\ s[Len(s)] = " " THEN RStrip(SubSeq(s, 1, Len(s) - 1)) ELSE s

Strip(s) == RStrip(LStrip(s))

(* the digit part of an int() literal: digits, single underscores between them *)
IsDigitPart(s) ==
    /\ s # <<>>
    /\ s[1] \in Digits
    /\ s[Len(s)] \in Digits
    /\ \A i \in 1..Len(s) : s[i] \in Digits \cup {"_"}
    /\ \A i \in 1..(Len(s) - 1) : ~(s[i] = "_" /\ s[i + 1] = "_")

RECURSIVE DigitPartValue(_, _)
DigitPartValue(s, acc) ==
    IF s = <<>> THEN acc
    ELSE IF Head(s) = "_" THEN DigitPartValue(Tail(s), acc)
    ELSE DigitPartValue(Tail(s), 10 * acc + DigitValue(Head(s)))

Unsigned(s) == IF s # <<>> /\ Head(s) = "-" THEN Tail(s) ELSE s

(* int(s) raises ValueError exactly when this is FALSE *)
IntParses(s) == IsDigitPart(Unsigned(Strip(s)))

(* int(s) when it does not raise *)
IntValue(s) ==
    LET t == Strip(s)
        v == DigitPartValue(Unsigned(t), 0)
    IN  IF t # <<>> /\ Head(t) = "-" THEN 0 - v ELSE v

----------------------------------------------------------------------------
(* Standard output *)

Line(m, n) == [msg |-> m, n |-> n]

Banner(p) ==
    << Line("starting", 0), Line("serving_at", p), Line("directory", 0),
       Line("open_browser_at", p), Line("press_ctrl_c", 0), Line("rule", 0) >>

Printed(m) == \E i \in 1..Len(output) : output[i].msg = m

PrintedWith(m, n) == \E i \in 1..Len(output) : output[i] = Line(m, n)

NoExc == [type |-> "none", errno |-> 0]

NoRequest == [method |-> "", path |-> "", version |-> ""]

NoResponse == [status |-> 0, wire |-> <<>>, ended |-> FALSE]

Raised(t, e) == [type |-> t, errno |-> e]

----------------------------------------------------------------------------
(* Operating system: the answers a bind of ("", port) can get *)

ValidPorts == 0..65535

(* EADDRINUSE is 48 on macOS and the BSDs, 98 on Linux *)
AddrInUseErrnos == {48, 98}

(* EACCES, a privileged port without the privilege *)
OtherBindErrnos == {13}

(* EPIPE, raised out of serve_forever when the request log cannot be written *)
ServeLoopErrnos == {32}

----------------------------------------------------------------------------
(* Request handling: CORSRequestHandler over SimpleHTTPRequestHandler *)

Methods == {"GET", "OPTIONS", "POST"}

Paths == {"/index.html", "/missing"}

ExistingPaths == {"/index.html"}

(* the third word of the request line; "" is a request line of two words *)
Versions == {"", "HTTP/1.0", "HTTP/1.1", "HTTP/2.0"}

Requests == [method : Methods, path : Paths, version : Versions]

Header(k, v) == [name |-> k, value |-> v]

(* BaseHTTPRequestHandler.send_response_only: no status line in HTTP/0.9 *)
send_response_only(buf, ver, code) ==
    IF ver # "HTTP/0.9" THEN Append(buf, Header("Status-Line", "HTTP/1.0")) ELSE buf

(* BaseHTTPRequestHandler.send_header: no header lines in HTTP/0.9 *)
send_header(buf, ver, k, v) ==
    IF ver # "HTTP/0.9" THEN Append(buf, Header(k, v)) ELSE buf

(* BaseHTTPRequestHandler.send_response *)
send_response(buf, ver, code) ==
    send_header(send_header(send_response_only(buf, ver, code),
                            ver, "Server", "SimpleHTTP"),
                ver, "Date", "now")

(* BaseHTTPRequestHandler.end_headers: close the header block and flush *)
base_end_headers(buf, ver, code) ==
    [status |-> code, wire |-> buf, ended |-> ver # "HTTP/0.9"]

(* mutant: the headers are injected into successful responses only *)
end_headers_on_success(buf, ver, code) ==
    IF code < 400
    THEN LET b1 == send_header(buf, ver, "Access-Control-Allow-Origin", "*")
             b2 == send_header(b1, ver, "Access-Control-Allow-Methods", "GET, POST, OPTIONS")
             b3 == send_header(b2, ver, "Access-Control-Allow-Headers", "Content-Type")
         IN  base_end_headers(b3, ver, code)
    ELSE base_end_headers(buf, ver, code)

(* lines 38-42: CORSRequestHandler.end_headers *)
end_headers(buf, ver, code) ==
    LET b1 == send_header(buf, ver, "Access-Control-Allow-Origin", "*")
        b2 == send_header(b1, ver, "Access-Control-Allow-Methods", "GET, POST, OPTIONS")
        b3 == send_header(b2, ver, "Access-Control-Allow-Headers", "Content-Type")
    IN  base_end_headers(b3, ver, code)

(* BaseHTTPRequestHandler.send_error *)
send_error(ver, code) ==
    LET b1 == send_response(<<>>, ver, code)
        b2 == send_header(b1, ver, "Connection", "close")
        b3 == send_header(b2, ver, "Content-Type", "text/html;charset=utf-8")
        b4 == send_header(b3, ver, "Content-Length", "n")
    IN  end_headers(b4, ver, code)

(* SimpleHTTPRequestHandler.send_head, as do_GET runs it *)
do_GET(ver, path) ==
    IF path \in ExistingPaths
    THEN LET b1 == send_response(<<>>, ver, 200)
             b2 == send_header(b1, ver, "Content-type", "text/html")
             b3 == send_header(b2, ver, "Content-Length", "n")
             b4 == send_header(b3, ver, "Last-Modified", "then")
         IN  end_headers(b4, ver, 200)
    ELSE send_error(ver, 404)

(* BaseHTTPRequestHandler.handle_one_request with parse_request: the       *)
(* handler's request_version stays HTTP/0.9 until a request line with a    *)
(* version below 2.0 has been accepted                                     *)
Respond(req) ==
    IF req.version = ""
    THEN IF req.method # "GET"
         THEN send_error("HTTP/0.9", 400)
         ELSE do_GET("HTTP/0.9", req.path)
    ELSE IF req.version = "HTTP/2.0"
    THEN send_error("HTTP/0.9", 505)
    ELSE IF req.method = "GET"
    THEN do_GET(req.version, req.path)
    ELSE send_error(req.version, 501)


----------------------------------------------------------------------------
Init ==
    /\ argv \in ArgVectors
    /\ pc = "parse"
    /\ port = DefaultPort
    /\ cwd = "invocation_dir"
    /\ listening = FALSE
    /\ exc = NoExc
    /\ output = <<>>
    /\ traceback = "none"
    /\ exitStatus = Running
    /\ browserUrls = <<>>
    /\ lastRequest = NoRequest
    /\ lastResponse = NoResponse
    /\ bindOutcome = "none"
    /\ serverPort = 0
    /\ browserOutcome = "none"
    /\ steps = <<>>
    /\ sigint = "none"

(* mutant: the browser is opened before the server is constructed *)
StepAfterBrowserFirst(p) ==
    IF p = "parse" THEN "chdir"
    ELSE IF p = "chdir" THEN "browser"
    ELSE IF p = "browser" THEN "bind"
    ELSE IF p = "bind" THEN "banner"
    ELSE "serve"

(* the statements of main() up to serve_forever, in program order *)
StepAfter(p) ==
    IF p = "parse" THEN "chdir"
    ELSE IF p = "chdir" THEN "bind"
    ELSE IF p = "bind" THEN "banner"
    ELSE IF p = "banner" THEN "browser"
    ELSE "serve"

(* mutant: the parsed value is never assigned to port *)
PortIgnoringArgv(args) == DefaultPort

(* lines 22-27: the value of port after the argument has been looked at *)
PortFromArgv(args) ==
    IF Len(args) > 0 /\ IntParses(args[1]) THEN IntValue(args[1]) ELSE DefaultPort

(* lines 22-27 *)
ParsePort ==
    /\ pc = "parse"
    /\ port' = PortFromArgv(argv)
    /\ output' = IF Len(argv) > 0 /\ ~IntParses(argv[1])
                 THEN Append(output, Line("invalid_port", 0))
                 ELSE output
    /\ steps' = Append(steps, "parse")
    /\ pc' = StepAfter("parse")
    /\ UNCHANGED <<argv, cwd, listening, exc, traceback, exitStatus,
                   browserUrls, lastRequest, lastResponse, bindOutcome,
                   serverPort, browserOutcome, sigint>>

(* lines 30-31 *)
ChangeDirectory ==
    /\ pc = "chdir"
    /\ cwd' = "script_dir"
    /\ steps' = Append(steps, "chdir")
    /\ pc' = StepAfter("chdir")
    /\ UNCHANGED <<argv, port, listening, exc, output, traceback, exitStatus,
                   browserUrls, lastRequest, lastResponse, bindOutcome,
                   serverPort, browserOutcome, sigint>>

(* line 45, socketserver.TCPServer(("", port), CORSRequestHandler): the    *)
(* constructor binds and listens; when that raises it closes its socket    *)
(* and the `with` block is never entered                                   *)
Bind ==
    /\ pc = "bind"
    /\ serverPort' = port
    /\ steps' = Append(steps, "bind")
    /\ IF port \notin ValidPorts
       THEN /\ bindOutcome' = "out_of_range"
            /\ exc' = Raised("OverflowError", 0)
            /\ pc' = "except"
            /\ listening' = FALSE
       ELSE \/ /\ bindOutcome' = "ok"
               /\ exc' = exc
               /\ pc' = StepAfter("bind")
               /\ listening' = TRUE
            \/ \E e \in AddrInUseErrnos :
               /\ bindOutcome' = "in_use"
               /\ exc' = Raised("OSError", e)
               /\ pc' = "except"
               /\ listening' = FALSE
            \/ \E e \in OtherBindErrnos :
               /\ bindOutcome' = "os_error"
               /\ exc' = Raised("OSError", e)
               /\ pc' = "except"
               /\ listening' = FALSE
    /\ UNCHANGED <<argv, port, cwd, output, traceback, exitStatus,
                   browserUrls, lastRequest, lastResponse, browserOutcome,
                   sigint>>

(* lines 46-51 *)
PrintBanner ==
    /\ pc = "banner"
    /\ output' = output \o Banner(port)
    /\ steps' = Append(steps, "banner")
    /\ pc' = StepAfter("banner")
    /\ UNCHANGED <<argv, port, cwd, listening, exc, traceback, exitStatus,
                   browserUrls, lastRequest, lastResponse, bindOutcome,
                   serverPort, browserOutcome, sigint>>

(* Ctrl+C while lines 46-51 run *)
InterruptBanner ==
    /\ pc = "banner"
    /\ sigint' = "banner"
    /\ exc' = Raised("KeyboardInterrupt", 0)
    /\ steps' = Append(steps, "banner")
    /\ pc' = "with_exit"
    /\ UNCHANGED <<argv, port, cwd, listening, output, traceback, exitStatus,
                   browserUrls, lastRequest, lastResponse, bindOutcome,
                   serverPort, browserOutcome>>

(* mutant: the browser launch is not wrapped in a try statement *)
BrowserExceptCatchesNothing(t) == FALSE

(* line 57: a bare `except:` catches every exception type *)
BrowserExceptCatches(t) == TRUE

(* what webbrowser.open does: return True, return False, raise an error,   *)
(* or be interrupted by Ctrl+C while it waits for the browser command      *)
BrowserOutcomes == {"opened", "not_opened", "error", "interrupt"}

BrowserRaises(o) ==
    IF o = "error" THEN "Error"
    ELSE IF o = "interrupt" THEN "KeyboardInterrupt"
    ELSE "none"

(* lines 54-58 *)
LaunchBrowser ==
    /\ pc = "browser"
    /\ \E o \in BrowserOutcomes :
         /\ sigint' = IF o = "interrupt" THEN "browser" ELSE sigint
         /\ browserOutcome' = o
         /\ browserUrls' = Append(browserUrls, port)
         /\ IF BrowserRaises(o) = "none"
            THEN /\ output' = Append(output, Line("browser_opened", 0))
                 /\ pc' = StepAfter("browser")
                 /\ exc' = exc
            ELSE IF BrowserExceptCatches(BrowserRaises(o))
            THEN /\ output' = Append(output, Line("browser_warning", 0))
                 /\ pc' = StepAfter("browser")
                 /\ exc' = exc
            ELSE /\ output' = output
                 /\ pc' = "with_exit"
                 /\ exc' = Raised(BrowserRaises(o), 0)
    /\ steps' = IF pc' = "serve" THEN steps \o <<"browser", "serve">>
                ELSE Append(steps, "browser")
    /\ UNCHANGED <<argv, port, cwd, listening, traceback, exitStatus,
                   lastRequest, lastResponse, bindOutcome, serverPort>>

(* line 61, one turn of serve_forever: a request is accepted and handled *)
HandleRequest ==
    /\ pc = "serve"
    /\ \E req \in Requests :
         /\ lastRequest' = req
         /\ lastResponse' = Respond(req)
    /\ UNCHANGED <<argv, pc, port, cwd, listening, exc, output, traceback,
                   exitStatus, browserUrls, bindOutcome, serverPort,
                   browserOutcome, steps, sigint>>

(* line 61: Ctrl+C while serve_forever runs *)
InterruptServe ==
    /\ pc = "serve"
    /\ sigint' = "serve"
    /\ exc' = Raised("KeyboardInterrupt", 0)
    /\ pc' = "with_exit"
    /\ UNCHANGED <<argv, port, cwd, listening, output, traceback, exitStatus,
                   browserUrls, lastRequest, lastResponse, bindOutcome,
                   serverPort, browserOutcome, steps>>

(* line 61: an OSError leaves serve_forever *)
ServeLoopOSError ==
    /\ pc = "serve"
    /\ \E e \in ServeLoopErrnos : exc' = Raised("OSError", e)
    /\ pc' = "with_exit"
    /\ UNCHANGED <<argv, port, cwd, listening, output, traceback, exitStatus,
                   browserUrls, lastRequest, lastResponse, bindOutcome,
                   serverPort, browserOutcome, steps, sigint>>

(* mutant: the server is constructed without a `with` block, nothing closes it *)
WithExitLeavesSocketOpen ==
    /\ pc = "with_exit"
    /\ pc' = "except"
    /\ UNCHANGED <<argv, port, cwd, listening, exc, output, traceback,
                   exitStatus, browserUrls, lastRequest, lastResponse,
                   bindOutcome, serverPort, browserOutcome, steps, sigint>>

(* line 45, leaving the `with` block: BaseServer.__exit__ is server_close *)
WithExit ==
    /\ pc = "with_exit"
    /\ listening' = FALSE
    /\ pc' = "except"
    /\ UNCHANGED <<argv, port, cwd, exc, output, traceback, exitStatus,
                   browserUrls, lastRequest, lastResponse, bindOutcome,
                   serverPort, browserOutcome, steps, sigint>>

(* mutant: the try statement has no KeyboardInterrupt handler *)
HandlerForWithoutInterrupt(e) ==
    IF e.type = "OSError" THEN "except_OSError" ELSE "uncaught"

(* lines 63 and 70: which handler of the try statement takes the exception *)
HandlerFor(e) ==
    IF e.type = "OSError" THEN "except_OSError"
    ELSE IF e.type = "KeyboardInterrupt" THEN "except_KeyboardInterrupt"
    ELSE "uncaught"

(* line 64: the errno the handler takes for "address already in use" *)
IsAddrInUse(e) == e.errno = 48

(* lines 64-68 *)
OSErrorReport(e, p) ==
    IF IsAddrInUse(e)
    THEN << Line("port_in_use", p), Line("try_port", p + 1) >>
    ELSE << Line("error_starting", e.errno) >>

(* lines 71-72 *)
Farewell == << Line("stopped_by_user", 0), Line("thanks", 0) >>

(* lines 63-72; an exception no handler names ends the interpreter with a  *)
(* traceback and status 1                                                  *)
Except ==
    /\ pc = "except"
    /\ IF HandlerFor(exc) = "except_OSError"
       THEN /\ output' = output \o OSErrorReport(exc, port)
            /\ exitStatus' = 1
            /\ traceback' = traceback
       ELSE IF HandlerFor(exc) = "except_KeyboardInterrupt"
       THEN /\ output' = output \o Farewell
            /\ exitStatus' = 0
            /\ traceback' = traceback
       ELSE /\ output' = output
            /\ exitStatus' = 1
            /\ traceback' = exc.type
    /\ exc' = NoExc
    /\ pc' = "done"
    /\ UNCHANGED <<argv, port, cwd, listening, browserUrls, lastRequest,
                   lastResponse, bindOutcome, serverPort, browserOutcome,
                   steps, sigint>>

Next ==
    \/ ParsePort
    \/ ChangeDirectory
    \/ Bind
    \/ PrintBanner
    \/ InterruptBanner
    \/ LaunchBrowser
    \/ HandleRequest
    \/ InterruptServe
    \/ ServeLoopOSError
    \/ WithExit
    \/ Except

Spec == Init /\ [][Next]_vars

(* The statements of main() are steps of one sequential process: each one  *)
(* that is enabled is eventually taken.  Requests, interrupts and errors   *)
(* of the serve loop come from outside and carry no fairness.              *)
FairSpec ==
    /\ Spec
    /\ WF_vars(ParsePort) /\ WF_vars(ChangeDirectory) /\ WF_vars(Bind)
    /\ WF_vars(PrintBanner) /\ WF_vars(LaunchBrowser)
    /\ WF_vars(WithExit) /\ WF_vars(Except)

----------------------------------------------------------------------------
(* Vocabulary of the properties *)

TypeOK ==
    /\ argv \in ArgVectors
    /\ pc \in {"parse", "chdir", "bind", "banner", "browser", "serve",
               "with_exit", "except", "done"}
    /\ port \in Int
    /\ cwd \in {"invocation_dir", "script_dir"}
    /\ listening \in BOOLEAN
    /\ exitStatus \in {Running, 0, 1}
    /\ Len(browserUrls) <= 2
    /\ lastRequest \in Requests \cup {NoRequest}
    /\ bindOutcome \in {"none", "ok", "in_use", "os_error", "out_of_range"}
    /\ browserOutcome \in BrowserOutcomes \cup {"none"}
    /\ sigint \in {"none", "banner", "browser", "serve"}

Terminated == pc = "done"

Did(step) == \E i \in 1..Len(steps) : steps[i] = step

StartupOrder == <<"parse", "chdir", "bind", "banner", "browser", "serve">>

FarewellPrinted == Printed("stopped_by_user") /\ Printed("thanks")

CORSOrigin == Header("Access-Control-Allow-Origin", "*")

CORSMethods == Header("Access-Control-Allow-Methods", "GET, POST, OPTIONS")

CORSHeaders == Header("Access-Control-Allow-Headers", "Content-Type")

CORSNames == {CORSOrigin.name, CORSMethods.name, CORSHeaders.name}

CarriesCORS(resp) ==
    /\ \E i \in 1..Len(resp.wire) : resp.wire[i] = CORSOrigin
    /\ \E i \in 1..Len(resp.wire) : resp.wire[i] = CORSMethods
    /\ \E i \in 1..Len(resp.wire) : resp.wire[i] = CORSHeaders

(* the Access-Control-* lines of a response, in the order written *)
CORSLinesOf(resp) == SelectSeq(resp.wire, LAMBDA h : h.name \in CORSNames)

----------------------------------------------------------------------------
(* C1, as stated: every response the server sends, whatever the method,    *)
(* the path and the status, carries the three CORS headers.                *)
C1_EveryResponseCarriesCORS ==
    lastRequest # NoRequest => CarriesCORS(lastResponse)

(* C1, amended: every response that has a header block carries the three   *)
(* CORS headers, whatever the method, the path and the status, and an      *)
(* OPTIONS request answered with a header block gets the CORS lines of the *)
(* GET request to the same path; a response written in HTTP/0.9 form has   *)
(* no header block and carries none of them.                               *)
C1_ResponsesWithHeadersCarryCORS ==
    lastRequest # NoRequest =>
        /\ lastResponse.ended => CarriesCORS(lastResponse)
        /\ ~lastResponse.ended => lastResponse.wire = <<>>
        /\ lastRequest.version \in {"HTTP/1.0", "HTTP/1.1"} => lastResponse.ended
        /\ (lastRequest.method = "OPTIONS" /\ lastResponse.ended) =>
               CORSLinesOf(lastResponse) =
                   CORSLinesOf(Respond([lastRequest EXCEPT !.method = "GET"]))

C1_Witness ==
    /\ pc = "serve"
    /\ lastRequest.method = "OPTIONS"
    /\ lastRequest.version = "HTTP/1.1"
    /\ lastResponse.status = 501
    /\ CarriesCORS(lastResponse)

(* C2: once the argument has been looked at, port is 8000 when there is no *)
(* argument, the argument's integer value when it parses, and 8000 with a  *)
(* warning printed when it does not parse; the program is still running    *)
(* and goes on to bind that port, and a successful bind is a bind of it.   *)
C2_PortFromFirstArgument ==
    Did("parse") =>
        /\ Len(argv) = 0 => port = 8000 /\ ~Printed("invalid_port")
        /\ (Len(argv) > 0 /\ IntParses(argv[1])) =>
               port = IntValue(argv[1]) /\ ~Printed("invalid_port")
        /\ (Len(argv) > 0 /\ ~IntParses(argv[1])) =>
               port = 8000 /\ Printed("invalid_port")
        /\ argv = << <<"8", "0">> >> => port = 80
        /\ argv = << <<" ", "8", " ">> >> => port = 8
        /\ argv = << <<"8", "_", "0">> >> => port = 80
        /\ argv = << <<"-", "8">> >> => port = -8
        /\ argv = << <<"8", "x">> >> => port = 8000
        /\ argv = << <<"8", " ", "0">> >> => port = 8000
        /\ argv = << <<>> >> => port = 8000
        /\ pc \in {"chdir", "bind"} => exitStatus = Running
        /\ Did("bind") => serverPort = port
        /\ bindOutcome = "ok" => serverPort = port /\ listening = (pc \notin {"except", "done"})
        /\ Printed("serving_at") => PrintedWith("serving_at", port)

C2_Witness ==
    /\ argv = << <<"8", "0">> >>
    /\ bindOutcome = "ok"
    /\ serverPort = 80
    /\ listening

(* C3, as stated: when the bind finds the port in use, the program ends    *)
(* with a non-zero status, its output names the port and suggests port + 1,*)
(* and it never serves.                                                    *)
C3_PortInUseIsNamed ==
    bindOutcome = "in_use" =>
        /\ ~Did("banner") /\ ~Did("serve") /\ ~listening
        /\ Terminated =>
               /\ exitStatus = 1
               /\ PrintedWith("port_in_use", port)
               /\ PrintedWith("try_port", port + 1)

(* C4, as stated: when the bind fails for a reason other than the port     *)
(* being in use, a port outside the TCP range included, the program's own  *)
(* error report prints the underlying error and the exit status is 1.      *)
C4_OtherBindErrorsReported ==
    (bindOutcome \in {"os_error", "out_of_range"} /\ Terminated) =>
        /\ exitStatus = 1
        /\ Printed("error_starting")
        /\ traceback = "none"

(* C5: an interrupt delivered in the serve loop stops the loop; the        *)
(* process then ends with the farewell printed and exit status 0, never 1. *)
C5_InterruptWhileServing ==
    /\ [](sigint = "serve" =>
            /\ pc \in {"with_exit", "except", "done"}
            /\ exitStatus # 1
            /\ Terminated => exitStatus = 0 /\ FarewellPrinted)
    /\ (sigint = "serve" ~> (Terminated /\ exitStatus = 0 /\ FarewellPrinted))

C5_Witness ==
    /\ sigint = "serve"
    /\ Terminated
    /\ exitStatus = 0
    /\ FarewellPrinted

(* C6: when the browser launch raises an error after a successful bind,    *)
(* the error is caught, the warning is printed, and the program enters the *)
(* serve loop with its listener still bound to the port.                   *)
C6_BrowserFailureNotFatal ==
    [][(pc = "browser" /\ browserOutcome' = "error") =>
          /\ bindOutcome = "ok"
          /\ pc' = "serve"
          /\ exc' = NoExc
          /\ exitStatus' = Running
          /\ listening' /\ serverPort' = port
          /\ output' = Append(output, Line("browser_warning", 0))
          /\ browserUrls' = Append(browserUrls, port)]_vars

C6_Witness ==
    /\ browserOutcome = "error"
    /\ pc = "serve"
    /\ listening
    /\ Printed("browser_warning")
    /\ lastRequest # NoRequest

(* C7, as stated: once the serve loop has been entered the process ends    *)
(* only by a user interrupt, with status 0; status 1 comes from a bind     *)
(* error alone.                                                            *)
C7_ServingEndsOnlyByInterrupt ==
    /\ (Did("serve") /\ Terminated) => (exitStatus = 0 /\ sigint # "none")
    /\ exitStatus = 1 => bindOutcome \in {"in_use", "os_error", "out_of_range"}

(* C8, as stated: an interrupt delivered after the bind and before         *)
(* serve_forever, the browser launch included, ends the process with the   *)
(* farewell and status 0, and the server does not serve after it.          *)
C8_InterruptAfterBindStops ==
    sigint \in {"banner", "browser"} =>
        /\ pc \in {"with_exit", "except", "done"}
        /\ lastRequest = NoRequest
        /\ Terminated => exitStatus = 0 /\ FarewellPrinted

(* C9: the startup steps run in the order parse, chdir, bind, banner,      *)
(* browser launch, serve loop; the browser is launched at most once and    *)
(* only after a successful bind, so a run whose bind failed launched none, *)
(* and no request is served before the bind.                               *)
C9_StartupOrder ==
    /\ Len(steps) <= Len(StartupOrder)
    /\ \A i \in 1..Len(steps) : i <= Len(StartupOrder) => steps[i] = StartupOrder[i]
    /\ Did("chdir") <=> cwd = "script_dir"
    /\ Did("bind") <=> bindOutcome # "none"
    /\ Len(browserUrls) <= 1
    /\ (browserUrls # <<>> \/ browserOutcome # "none") => bindOutcome = "ok"
    /\ bindOutcome \in {"in_use", "os_error", "out_of_range"} =>
           /\ browserUrls = <<>>
           /\ ~Did("browser")
    /\ lastRequest # NoRequest =>
           /\ bindOutcome = "ok"
           /\ Len(browserUrls) = 1
    /\ pc = "serve" => Did("serve") /\ Did("browser")

C9_Witness ==
    /\ steps = StartupOrder
    /\ lastRequest # NoRequest
    /\ browserUrls = <<port>>

(* C10: after a successful bind the listener is closed on every way out:   *)
(* no exception handler runs, no exit message is printed and no terminal   *)
(* state is reached with the socket still listening.                       *)
C10_ListenerReleased ==
    /\ pc \in {"except", "done"} => ~listening
    /\ (Printed("stopped_by_user") \/ Printed("error_starting")
            \/ Printed("port_in_use") \/ traceback # "none") => ~listening
    /\ listening => bindOutcome = "ok" /\ exitStatus = Running

C10_Witness ==
    /\ bindOutcome = "ok"
    /\ Did("serve")
    /\ Terminated
    /\ exitStatus = 1
    /\ Printed("error_starting")
    /\ ~listening

====
